---------------------------- MODULE Spec2Model ----------------------------
(***************************************************************************)
(* tree-dangler: the shape-generation worker (src/lib/workers/             *)
(* voronoiWorker.ts), its consumer (useWorker in src/lib/state/store.tsx)  *)
(* and the raster morphology the worker runs (src/lib/logic/               *)
(* distanceField.ts).                                                      *)
(*                                                                         *)
(* The worker is one JavaScript event loop.  A task (a message event or a  *)
(* timer callback) runs to completion, and the microtasks it queued        *)
(* (Promise.resolve().then(...)) run before the next task is taken.  The   *)
(* consumer posts requests from another thread at any time; they wait in   *)
(* the worker's message queue (inbox) until the listener handles them.     *)
(***************************************************************************)
EXTENDS Integers, Sequences, FiniteSets, TLC

(***************************************************************************)
(* Bounds of the model.                                                    *)
(***************************************************************************)
MaxRequests == 3

\* The raster of the morphology (600 x 800 in the worker).
RasterWidth == 3
RasterHeight == 2

\* The shaping parameters, in pixels: gap and round, and the noise amplitude
\* in steps of NoiseStep.
MaxGap == 1
MaxRound == 1
MaxNoiseSteps == 1
NoiseStep == 7
NoiseSeeds == {1, 2}
NoiseLibs == {0, 1}

\* The spines of a request to the partition.
MaxSpines == 3

\* The paths in the trace data of a run.
MaxContours == 4

\* The points of a mask under edit.
MaxMaskPoints == 5

\* The snapshots the undo stack of the editor holds.
MaxSnapshots == 2

Scenes == {"blank", "tree"}

Faults == {"none", "tessellation", "rasterization", "distance",
           "morphology", "vectorization", "svg"}

VARIABLES
    \* worker (voronoiWorker.ts)
    isComputing,        \* let isComputing
    latestPending,      \* let latestPending (NoRequest models null)
    pendingTimeout,     \* let pendingTimeout (FALSE models null)
    timers,             \* timer callbacks armed by setTimeout, not yet fired
    microtasks,         \* closures queued by Promise.resolve().then: the captured request
    \* channels
    inbox,              \* requests posted to the worker, not yet handled (FIFO)
    outbox,             \* responses posted by the worker, not yet delivered
    \* consumer (useWorker)
    requestIdRef,
    latestCompletedRef,
    piecePolygons,
    svgString,
    \* observation
    posted,             \* number of responses posted so far (tags the responses in flight)
    handled,            \* requests the message listener has handled, in order
    runs,               \* runs started: the request and how many requests had been handled
    lastRun,            \* the latest completed run: its environment and the responses it posted
    maxSeen,            \* highest id among the responses delivered so far
    lastReceived,       \* the latest delivery: the response, the highest id seen before it, whether it was applied
    sentInYield,        \* whether a request was posted since the latest run started, before its microtask ran
    \* morphology of a run (voronoiWorker.ts:105-157)
    noiseLib,           \* which noise function makeNoise2D provides
    cachedNoiseSeed,    \* let cachedNoiseSeed (0 models null)
    cachedNoise2D,      \* let cachedNoise2D: the seed the cached generator was made from (0 models null)
    maskBitmap,         \* channel 0 of maskBitmap.data
    seedsMade,          \* the seeds makeNoise2D has been called with so far
    \* partition of a run (voronoi.ts)
    segments,           \* request.segments: the spines, in order
    spacing,            \* request.spacing
    keepers,            \* the samples Delaunay.from kept of the coincident ones
    cellDefect,         \* the spine whose Voronoi cells come back with non-finite vertices, and how many
    unionThrows,        \* the spine for which martinez' union throws (0 for none)
    voronoiResult,      \* what computeVoronoiPolygons did: returned polygons or threw
    \* vectorizer of a run (tracing.ts)
    traceData,          \* traced.layers, as ImageTracer.imagedataToTracedata returns it
    traceFails,         \* whether the tracer throws instead
    traceResult,        \* what traceBinaryBitmap returned
    \* mask editing (logic/mask.ts)
    maskPoints,         \* mask.points
    lastMaskEdit,       \* the latest call: the function, its index and the points it was given
    \* editor (panes/EditorPane.tsx)
    editorScene,        \* mask, segments, connectors and config of the store, as rendered
    undoStack,          \* undoStackRef.current
    redoStack,          \* redoStackRef.current
    dragUndoCaptured,   \* dragUndoCapturedRef.current
    dragInfo,           \* dragInfo (kind "none" models null)
    selection,          \* maskSelection, selectedSegmentId, selectedConnectorId
    editorLog,          \* the latest editor action and what the scene was before the latest edit
    lastConfig,         \* request.config of the latest run
    lastInward,         \* inward (field and maxDistance) of the latest run
    lastShrinkMask,     \* shrinkMask, outward.field and finalMask of the latest run
    lastOutward,
    lastFinalMask

vars == <<isComputing, latestPending, pendingTimeout, timers, microtasks,
          inbox, outbox, requestIdRef, latestCompletedRef, piecePolygons,
          svgString, posted, handled, runs, lastRun, maxSeen, lastReceived,
          sentInYield,
          noiseLib, cachedNoiseSeed, cachedNoise2D, maskBitmap, lastConfig,
          lastInward, lastShrinkMask, lastOutward, lastFinalMask, seedsMade,
          segments, spacing, keepers, cellDefect, unionThrows, voronoiResult,
          traceData, traceFails, traceResult, maskPoints, lastMaskEdit,
          editorScene, undoStack, redoStack, dragUndoCaptured, dragInfo,
          selection, editorLog>>

workerVars == <<isComputing, latestPending, pendingTimeout, timers, microtasks>>
consumerVars == <<requestIdRef, latestCompletedRef, piecePolygons, svgString>>
observerVars == <<handled, runs, lastRun, maxSeen, lastReceived>>
schedulerVars ==
    <<workerVars, inbox, outbox, consumerVars, posted, observerVars,
      sentInYield>>
morphVars == <<noiseLib, cachedNoiseSeed, cachedNoise2D, maskBitmap,
               lastConfig, lastInward, lastShrinkMask, lastOutward,
               lastFinalMask, seedsMade>>
partitionVars ==
    <<segments, spacing, keepers, cellDefect, unionThrows, voronoiResult>>
traceVars == <<traceData, traceFails, traceResult>>
maskVars == <<maskPoints, lastMaskEdit>>
editorVars == <<editorScene, undoStack, redoStack, dragUndoCaptured, dragInfo,
                selection, editorLog>>
paneVars == <<traceVars, maskVars, editorVars>>

(***************************************************************************)
(* Messages.  An optional field of a message is a key that is present or   *)
(* absent in the record.                                                   *)
(***************************************************************************)
NoRequest == [id |-> 0, scene |-> "null"]

WorkerRequest(id, scene) == [id |-> id, scene |-> scene]

EmptyResponse(id) == [id |-> id, piecePolygons |-> <<>>, svgString |-> <<>>]

ErrorResponse(id) == [id |-> id, error |-> "failed"]

Has(msg, key) == key \in DOMAIN msg

NoRun == [run |-> 0, req |-> NoRequest, surface |-> TRUE, fault |-> "none",
          responses |-> <<>>]

NoDelivery == [msg |-> [id |-> 0], maxBefore |-> 0, applied |-> FALSE]

(***************************************************************************)
(* The pipeline stages, reduced to what the scheduler observes of them:    *)
(* the value they return or the exception they raise.  fault names the     *)
(* stage that raises during this run and surface tells whether             *)
(* createContext obtains a drawing surface.                                *)
(***************************************************************************)
ComputeVoronoiPolygons(scene) ==
    IF scene = "blank" THEN <<>> ELSE <<scene>>

TraceBinaryBitmap(scene, tracerThrows) ==
    IF tracerThrows THEN <<>> ELSE <<scene>>

GenerateSVG(traced, scene) == <<"svg", scene, Len(traced)>>

PipelineDropsReturn(request, surface, fault) ==
    LET id == request.id
        polygons == ComputeVoronoiPolygons(request.scene)
        early == IF polygons = <<>> THEN <<EmptyResponse(id)>> ELSE <<>>
        traced == TraceBinaryBitmap(request.scene, fault = "vectorization")
    IN  IF request.scene # "blank" /\ fault = "tessellation"
          THEN <<ErrorResponse(id)>>
        ELSE IF polygons # <<>> /\ ~surface
          THEN <<EmptyResponse(id)>>
        ELSE IF polygons # <<>> /\ fault \in {"rasterization", "distance", "morphology", "svg"}
          THEN early \o <<ErrorResponse(id)>>
        ELSE early \o <<[id |-> id, piecePolygons |-> traced,
                         svgString |-> GenerateSVG(traced, request.scene)]>>

PipelineLeaksTessellation(request, surface, fault) ==
    LET id == request.id
        polygons == ComputeVoronoiPolygons(request.scene)
        traced == TraceBinaryBitmap(request.scene, fault = "vectorization")
    IN  IF request.scene # "blank" /\ fault = "tessellation"
          THEN <<>>
        ELSE IF polygons = <<>> \/ ~surface
          THEN <<EmptyResponse(id)>>
        ELSE IF fault \in {"rasterization", "distance", "morphology", "svg"}
          THEN <<ErrorResponse(id)>>
        ELSE <<[id |-> id, piecePolygons |-> traced,
                svgString |-> GenerateSVG(traced, request.scene)]>>

PipelineThrowsWithoutSurface(request, surface, fault) ==
    LET id == request.id
        polygons == ComputeVoronoiPolygons(request.scene)
        traced == TraceBinaryBitmap(request.scene, fault = "vectorization")
    IN  IF request.scene # "blank" /\ fault = "tessellation"
          THEN <<ErrorResponse(id)>>
        ELSE IF polygons = <<>>
          THEN <<EmptyResponse(id)>>
        ELSE IF ~surface
          THEN <<ErrorResponse(id)>>
        ELSE IF fault \in {"rasterization", "distance", "morphology", "svg"}
          THEN <<ErrorResponse(id)>>
        ELSE <<[id |-> id, piecePolygons |-> traced,
                svgString |-> GenerateSVG(traced, request.scene)]>>

\* The body of the microtask: try { ... } catch { ... }.  The result is the
\* sequence of messages it posts.
Pipeline(request, surface, fault) ==
    LET id == request.id
        polygons == ComputeVoronoiPolygons(request.scene)
        traced == TraceBinaryBitmap(request.scene, fault = "vectorization")
    IN  IF request.scene # "blank" /\ fault = "tessellation"
          THEN <<ErrorResponse(id)>>                  \* catch
        ELSE IF polygons = <<>>
          THEN <<EmptyResponse(id)>>                  \* !polygons.length
        ELSE IF ~surface
          THEN <<EmptyResponse(id)>>                  \* !maskBitmap
        ELSE IF fault \in {"rasterization", "distance", "morphology", "svg"}
          THEN <<ErrorResponse(id)>>                  \* catch
        ELSE <<[id |-> id, piecePolygons |-> traced,
                svgString |-> GenerateSVG(traced, request.scene)]>>

\* The stage in which this run raises an exception ("none" when no stage
\* does): a stage raises when it is the faulty one and the run reaches it.
RaisedIn(scene, surface, fault) ==
    IF scene = "blank" THEN "none"
    ELSE IF fault = "tessellation" THEN fault
    ELSE IF ~surface THEN "none"
    ELSE fault

(***************************************************************************)
(* The distance transform (distanceField.ts) and the morphology of the     *)
(* worker's microtask (voronoiWorker.ts:105-157).                          *)
(*                                                                         *)
(* A number of the transform is c * 1e20 + a, written [inf |-> c,          *)
(* fin |-> a]: at the raster sizes of the model a is far below the         *)
(* precision of a double (and of the Float32Array cells) at 1e20, so       *)
(* 1e20 + a = 1e20 and 1e20 - 1e20 = 0, which is what the floating-point   *)
(* code computes.  A quotient keeps its denominator, and comparisons are   *)
(* exact.  A distance is kept as its square; Math.sqrt is applied where a  *)
(* distance is compared.  Thresholds are whole half pixels and noise       *)
(* offsets whole pixels, so no comparison falls within rounding error.     *)
(***************************************************************************)
Fin(a) == [inf |-> 0, fin |-> a]

\* const INF = 1e20
INF == [inf |-> 1, fin |-> 0]

\* x + k for a small integer k
Plus(x, k) == IF x.inf # 0 THEN x ELSE Fin(x.fin + k)

\* x - y
Minus(x, y) ==
    IF x.inf - y.inf # 0 THEN [inf |-> x.inf - y.inf, fin |-> 0]
    ELSE IF x.inf # 0 THEN Fin(0)
    ELSE Fin(x.fin - y.fin)

\* x / d for an integer d > 0
Quot(x, d) == [inf |-> x.inf, num |-> x.fin, den |-> d]

NegInf == [inf |-> -1, num |-> 0, den |-> 1]

PosInf == [inf |-> 1, num |-> 0, den |-> 1]

\* s <= t and s < t for two quotients
QLeq(s, t) ==
    LET c == s.inf * t.den - t.inf * s.den
    IN  IF c # 0 THEN c < 0 ELSE s.num * t.den - t.num * s.den <= 0

QLess(s, t) == ~QLeq(t, s)

\* The do { ... } while (k >= 0) loop of distanceTransform1D: the stack top
\* it stops at (-1 when the stack is emptied) and the last intersection s.
RECURSIVE PopEnvelope(_, _, _, _, _)
PopEnvelope(input, q, v, z, k) ==
    LET p == v[k]
        s == Quot(Minus(Plus(input[q], q * q), Plus(input[p], p * p)),
                  2 * q - 2 * p)
    IN  IF QLeq(s, z[k])
          THEN IF k - 1 >= 0 THEN PopEnvelope(input, q, v, z, k - 1)
               ELSE [k |-> k - 1, s |-> s]
          ELSE [k |-> k, s |-> s]

\* for (let q = 1; q < n; q += 1) { ... }
RECURSIVE BuildEnvelope(_, _, _, _)
BuildEnvelope(input, n, q, st) ==
    IF q >= n THEN st
    ELSE LET r == PopEnvelope(input, q, st.v, st.z, st.k)
             k == r.k + 1
         IN  BuildEnvelope(input, n, q + 1,
                 [k |-> k,
                  v |-> [st.v EXCEPT ![k] = q],
                  z |-> [st.z EXCEPT ![k] = r.s, ![k + 1] = PosInf]])

AdvanceEnvelopeSkipped(z, k, q) == k

\* while (z[k + 1] < q) k += 1
RECURSIVE AdvanceEnvelope(_, _, _)
AdvanceEnvelope(z, k, q) ==
    IF QLess(z[k + 1], Quot(Fin(q), 1)) THEN AdvanceEnvelope(z, k + 1, q)
    ELSE k

\* for (let q = 0; q < n; q += 1) { ... output[q] = ... }: k and output
\* after the iterations 0..q.
RECURSIVE FillOutput(_, _, _, _)
FillOutput(input, q, st, output) ==
    IF q < 0 THEN [k |-> 0, output |-> output]
    ELSE LET prev == FillOutput(input, q - 1, st, output)
             k2 == AdvanceEnvelope(st.z, prev.k, q)
             val == st.v[k2]
         IN  [k |-> k2,
              output |-> [prev.output EXCEPT
                            ![q] = Plus(input[val], (q - val) * (q - val))]]

\* function distanceTransform1D(input, n, output): input and the result are
\* arrays indexed from 0.
DistanceTransform1D(input, n) ==
    LET st0 == [k |-> 0,
                v |-> [i \in 0..(n - 1) |-> 0],
                z |-> [i \in 0..n |->
                         IF i = 0 THEN NegInf
                         ELSE IF i = 1 THEN PosInf
                         ELSE Quot(Fin(0), 1)]]
        st == BuildEnvelope(input, n, 1, st0)
    IN  FillOutput(input, n - 1, st, [i \in 0..(n - 1) |-> Fin(0)]).output

\* The greater of two squared distances.
MaxSq(a, b) ==
    IF a.inf > b.inf \/ (a.inf = b.inf /\ a.fin > b.fin) THEN a ELSE b

\* for (let i = 0; i < total; i += 1) if (output[i] > maxDistance) ...:
\* maxDistance after the iterations 0..i.  Number.isFinite(output[i]) holds
\* of every value of the field, the 1e10 of a pixel without seed included.
RECURSIVE MaxOver(_, _, _)
MaxOver(field, i, maxDistance) ==
    IF i < 0 THEN maxDistance
    ELSE MaxSq(field[i], MaxOver(field, i - 1, maxDistance))

\* for y, x: initial[idx] = data[idx * 4] > 127 ? INF : 0; the array after
\* the iterations 0..i.
RECURSIVE ClassifyLoop(_, _, _)
ClassifyLoop(data, i, initial) ==
    IF i < 0 THEN initial
    ELSE [ClassifyLoop(data, i - 1, initial) EXCEPT
            ![i] = IF data[i] > 127 THEN INF ELSE Fin(0)]

\* for y: temp[y * width + x] = columnOutput[y]
RECURSIVE StoreColumn(_, _, _, _, _)
StoreColumn(width, x, y, columnOutput, temp) ==
    IF y < 0 THEN temp
    ELSE [StoreColumn(width, x, y - 1, columnOutput, temp) EXCEPT
            ![y * width + x] = columnOutput[y]]

\* // columns: temp after the columns 0..x
RECURSIVE ColumnLoop(_, _, _, _, _)
ColumnLoop(width, height, x, initial, temp) ==
    IF x < 0 THEN temp
    ELSE LET columnInput == [y \in 0..(height - 1) |-> initial[y * width + x]]
             columnOutput == DistanceTransform1D(columnInput, height)
         IN  StoreColumn(width, x, height - 1, columnOutput,
                 ColumnLoop(width, height, x - 1, initial, temp))

\* for x: output[rowOffset + x] = Math.sqrt(rowOutput[x]), kept as the square
RECURSIVE StoreRow(_, _, _, _, _)
StoreRow(width, y, x, rowOutput, output) ==
    IF x < 0 THEN output
    ELSE [StoreRow(width, y, x - 1, rowOutput, output) EXCEPT
            ![y * width + x] = rowOutput[x]]

\* // rows: output after the rows 0..y
RECURSIVE RowLoop(_, _, _, _, _)
RowLoop(width, height, y, temp, output) ==
    IF y < 0 THEN output
    ELSE LET rowInput == [x \in 0..(width - 1) |-> temp[y * width + x]]
             rowOutput == DistanceTransform1D(rowInput, width)
         IN  StoreRow(width, y, width - 1, rowOutput,
                 RowLoop(width, height, y - 1, temp, output))

\* function computeDistanceField(bitmap): bitmap.data is given by its
\* channel 0.  field and maxDistance hold the squares of the distances
\* (INF for the square of the 1e10 that a raster without seeds yields).
ComputeDistanceField(width, height, data) ==
    LET total == width * height
        zeros == [i \in 0..(total - 1) |-> Fin(0)]
        initial == ClassifyLoop(data, total - 1, zeros)
        temp == ColumnLoop(width, height, width - 1, initial, zeros)
        output == RowLoop(width, height, height - 1, temp, zeros)
    IN  [field |-> output,
         maxDistance |-> MaxOver(output, total - 1, Fin(0))]

SqrtLeqHalf(sq, t2) ==
    sq.inf = 0 /\ t2 >= 0 /\ 4 * sq.fin <= t2 * t2

\* Math.sqrt(sq) >= t / 2 for a squared distance sq and a threshold given
\* in half pixels.
SqrtGeqHalf(sq, t2) ==
    sq.inf > 0 \/ t2 <= 0 \/ 4 * sq.fin >= t2 * t2

\* makeNoise2D(seed)(u, v) of open-simplex-noise, with u and v in hundredths:
\* a fixed function of the seed and the point, here with values -1, 0, 1,
\* one such function for each value of lib.
Noise2D(lib, seed, u, v) == ((lib + 5 * seed + (seed + 1) * u + 2 * v) % 3) - 1

\* combinedNoise * 7 at pixel (x, y), for the generator made from seed.
CombinedNoise7(lib, seed, x, y) ==
    LET baseNoise == Noise2D(lib, seed, x, y)
        secondNoise == Noise2D(lib, seed, 2 * x + 10000, 2 * y + 10000)
        thirdNoise == Noise2D(lib, seed, 3 * x + 20000, 3 * y + 20000)
    IN  4 * baseNoise + 2 * secondNoise + thirdNoise

\* value <= t / 2 for a value of outward.field (see NoiseLoop) and a
\* threshold in half pixels.
FieldLeqHalf(value, t2) ==
    LET d == 7 * t2 - 2 * value.add            \* 14 * (t / 2 - add / 7)
    IN  /\ value.clamped => t2 >= 0
        /\ value.sq.inf = 0
        /\ d >= 0
        /\ 196 * value.sq.fin <= d * d

\* The thresholds TreeDanglerProvider passes to the worker, in half pixels.
ShrinkThreshold2(cfg) == 2 * cfg.roundPx + cfg.gapPx

RoundThreshold2(cfg) == 2 * cfg.roundPx

\* for (let i = 0; i < total; i += 1) shrinkMask[i] = ... ? 1 : 0
RECURSIVE ShrinkLoop(_, _, _, _)
ShrinkLoop(field, t2, i, shrinkMask) ==
    IF i < 0 THEN shrinkMask
    ELSE [ShrinkLoop(field, t2, i - 1, shrinkMask) EXCEPT
            ![i] = SqrtGeqHalf(field[i], t2)]

\* shrinkMask of the microtask, from inward = computeDistanceField(maskBitmap)
ShrinkMask(w, h, inward, cfg) ==
    ShrinkLoop(inward.field, ShrinkThreshold2(cfg), w * h - 1,
               [i \in 0..(w * h - 1) |-> FALSE])

\* for (let i = 0; i < total; i += 1) invertedData[i * 4] = ... ? 0 : 255
RECURSIVE InvertLoop(_, _, _)
InvertLoop(shrinkMask, i, invertedData) ==
    IF i < 0 THEN invertedData
    ELSE [InvertLoop(shrinkMask, i - 1, invertedData) EXCEPT
            ![i] = IF shrinkMask[i] THEN 0 ELSE 255]

\* The noise loop over outward.field.  A value of the field is
\* Math.max(0, sqrt(sq) + add / 7) when clamped, sqrt(sq) otherwise.
RECURSIVE NoiseLoop(_, _, _, _, _, _)
NoiseLoop(lib, generator, w, amplitude, i, field) ==
    IF i < 0 THEN field
    ELSE [NoiseLoop(lib, generator, w, amplitude, i - 1, field) EXCEPT
            ![i] = [sq |-> field[i].sq,
                    add |-> CombinedNoise7(lib, generator, i % w, i \div w)
                              * amplitude,
                    clamped |-> TRUE]]

\* outward.field of the microtask, after the noise loop; generator is the
\* seed the noise generator in use was made from.
OutwardField(lib, generator, w, h, shrinkMask, cfg) ==
    LET invertedData == InvertLoop(shrinkMask, w * h - 1,
                                   [i \in 0..(w * h - 1) |-> 0])
        outward == ComputeDistanceField(w, h, invertedData)
        plain == [i \in 0..(w * h - 1) |->
                    [sq |-> outward.field[i], add |-> 0, clamped |-> FALSE]]
    IN  IF cfg.noiseAmplitude > 0
          THEN NoiseLoop(lib, generator, w, cfg.noiseAmplitude, w * h - 1, plain)
          ELSE plain

\* finalMask of the microtask
FinalMask(shrinkMask, outward, cfg) ==
    [i \in DOMAIN outward |-> FieldLeqHalf(outward[i], RoundThreshold2(cfg))]

NoiseCacheKeptAcrossSeeds(cachedSeed, cached2D, cfg) ==
    IF cached2D = 0
      THEN [cachedNoise2D |-> cfg.noiseSeed, cachedNoiseSeed |-> cfg.noiseSeed,
            made |-> {cfg.noiseSeed}]
      ELSE [cachedNoise2D |-> cached2D, cachedNoiseSeed |-> cachedSeed,
            made |-> {}]

\* if (cachedNoiseSeed !== config.noiseSeed || !cachedNoise2D) { ... }: the
\* cache after the statement, and the seeds makeNoise2D was called with.
NoiseCache(cachedSeed, cached2D, cfg) ==
    IF cachedSeed # cfg.noiseSeed \/ cached2D = 0
      THEN [cachedNoise2D |-> cfg.noiseSeed, cachedNoiseSeed |-> cfg.noiseSeed,
            made |-> {cfg.noiseSeed}]
      ELSE [cachedNoise2D |-> cached2D, cachedNoiseSeed |-> cachedSeed,
            made |-> {}]

\* One statement after another: Rest applied to the value of first, which is
\* complete before Rest reads it.
Then(first, Rest(_)) == CHOOSE result \in {Rest(value) : value \in {first}} : TRUE

\* finalMask of a run whose noise generator was made from seed generator:
\* the statements of the microtask from inward to finalMask, composed.
MaskOf(lib, generator, w, h, raster, cfg) ==
    Then(ComputeDistanceField(w, h, raster), LAMBDA inward :
    Then(ShrinkMask(w, h, inward, cfg), LAMBDA shrinkMask :
    Then(OutwardField(lib, generator, w, h, shrinkMask, cfg), LAMBDA outward :
         FinalMask(shrinkMask, outward, cfg))))

(***************************************************************************)
(* The partition (voronoi.ts).  A sample point is start + (end - start) *  *)
(* i / steps, kept as the pair of numerators xn, yn over den = steps.  The *)
(* Voronoi diagram of d3-delaunay is taken by its contract: the cell of a  *)
(* sample covers the points of the clip rectangle that have no other       *)
(* sample strictly closer, and of coincident samples one has a cell.  A    *)
(* polygon is given by the query points it covers and by its vertices, of  *)
(* which only whether they are finite is kept.                             *)
(***************************************************************************)
\* mask.points of the request: the rectangle the cells are clipped to.
MaskPoints ==
    <<[x |-> 0, y |-> 0], [x |-> 40, y |-> 0],
      [x |-> 40, y |-> 20], [x |-> 0, y |-> 20]>>

\* The start and end of the spines the requests are made of.
Geometries ==
    {[start |-> [x |-> 0, y |-> 0], end |-> [x |-> 40, y |-> 0]],
     [start |-> [x |-> 0, y |-> 20], end |-> [x |-> 40, y |-> 20]],
     [start |-> [x |-> 0, y |-> 20], end |-> [x |-> 40, y |-> 0]],
     [start |-> [x |-> 20, y |-> 10], end |-> [x |-> 20, y |-> 10]]}

Spacings == {10, 20}

\* What the library gives for the cells of one spine: every vertex finite
\* ("none"), one vertex of each cell non-finite ("some", and cut is what the
\* ring of the other vertices no longer covers), or every vertex ("all").
NoDefect == [spine |-> 0, kind |-> "none", cut |-> {}]

Cuts == {{}, {[x |-> 20, y |-> 10]}}

Defects(spines) ==
    {NoDefect} \union [spine : spines, kind : {"some"}, cut : Cuts]
               \union [spine : spines, kind : {"all"}, cut : {{}}]

\* Math.ceil(length / spacing) for length = sqrt(length2): the least n, from
\* n upwards, with n * spacing >= length.
RECURSIVE CeilQuotient(_, _, _)
CeilQuotient(length2, sp, n) ==
    IF n * n * sp * sp >= length2 THEN n
    ELSE CeilQuotient(length2, sp, n + 1)

SampleSegmentPointsOpenEnded(segment, sp) ==
    LET dx == segment.end.x - segment.start.x
        dy == segment.end.y - segment.start.y
        ceil == CeilQuotient(dx * dx + dy * dy, sp, 0)
        steps == IF ceil > 2 THEN ceil ELSE 2
    IN  [k \in 1..steps |->
           [point |-> [xn |-> segment.start.x * steps + dx * (k - 1),
                       yn |-> segment.start.y * steps + dy * (k - 1),
                       den |-> steps],
            segmentId |-> segment.id]]

\* function sampleSegmentPoints(segment, spacing)
SampleSegmentPoints(segment, sp) ==
    LET dx == segment.end.x - segment.start.x
        dy == segment.end.y - segment.start.y
        ceil == CeilQuotient(dx * dx + dy * dy, sp, 0)
        steps == IF ceil > 2 THEN ceil ELSE 2
    IN  [k \in 1..(steps + 1) |->
           [point |-> [xn |-> segment.start.x * steps + dx * (k - 1),
                       yn |-> segment.start.y * steps + dy * (k - 1),
                       den |-> steps],
            segmentId |-> segment.id]]

\* function buildSampledPoints(segments, spacing): the samples of the
\* segments in order, each with its point and its segmentId.
RECURSIVE BuildSampledPoints(_, _)
BuildSampledPoints(segs, sp) ==
    IF segs = <<>> THEN <<>>
    ELSE SampleSegmentPoints(Head(segs), sp) \o BuildSampledPoints(Tail(segs), sp)

RECURSIVE MinOver(_, _)
MinOver(values, k) ==
    IF k = 1 THEN values[1]
    ELSE LET rest == MinOver(values, k - 1)
         IN  IF values[k] < rest THEN values[k] ELSE rest

RECURSIVE MaxIn(_, _)
MaxIn(values, k) ==
    IF k = 1 THEN values[1]
    ELSE LET rest == MaxIn(values, k - 1)
         IN  IF values[k] > rest THEN values[k] ELSE rest

\* function maskBounds(mask)
MaskBounds(points) ==
    LET xs == [k \in 1..Len(points) |-> points[k].x]
        ys == [k \in 1..Len(points) |-> points[k].y]
    IN  [minX |-> MinOver(xs, Len(xs)), maxX |-> MaxIn(xs, Len(xs)),
         minY |-> MinOver(ys, Len(ys)), maxY |-> MaxIn(ys, Len(ys))]

\* The points of the clip rectangle at which polygons are compared.
QueryPoints ==
    LET bounds == MaskBounds(MaskPoints)
    IN  {q \in [x : {bounds.minX + 10 * k : k \in 0..4},
                y : {bounds.minY + 10 * k : k \in 0..2}] :
            q.x <= bounds.maxX /\ q.y <= bounds.maxY}

\* den^2 times the squared distance from q to sample point s.
ScaledSqDist(q, s) ==
    (q.x * s.den - s.xn) * (q.x * s.den - s.xn)
      + (q.y * s.den - s.yn) * (q.y * s.den - s.yn)

\* q is strictly closer to s than to t.
Closer(q, s, t) ==
    ScaledSqDist(q, s) * t.den * t.den < ScaledSqDist(q, t) * s.den * s.den

Coincident(s, t) == s.xn * t.den = t.xn * s.den /\ s.yn * t.den = t.yn * s.den

\* Delaunay.from(coordinatePairs): of the samples at one place one is kept
\* in the triangulation, whichever the sort of the library reaches first.
RECURSIVE PickOneOfEach(_)
PickOneOfEach(classes) ==
    IF classes = {} THEN {{}}
    ELSE LET class == CHOOSE c \in classes : TRUE
         IN  {kept \union {k} : kept \in PickOneOfEach(classes \ {class}),
                                k \in class}

KeeperSets(points) ==
    PickOneOfEach({{j \in 1..Len(points) :
                      Coincident(points[k].point, points[j].point)} :
                   k \in 1..Len(points)})

\* voronoi.cellPolygon(index): null (<<>>) for a sample without a cell;
\* otherwise the cell, with three vertices of which the defect of the
\* sample's spine makes one ("some") or all ("all") non-finite.
CellPolygon(points, kept, index, defect) ==
    IF index \notin kept THEN <<>>
    ELSE LET kind == IF defect.spine = points[index].segmentId
                       THEN defect.kind ELSE "none"
         IN  <<[index |-> index,
                region |-> {q \in QueryPoints :
                              \A j \in kept :
                                 ~Closer(q, points[j].point, points[index].point)},
                polygon |-> IF kind = "none" THEN <<TRUE, TRUE, TRUE>>
                            ELSE IF kind = "some" THEN <<TRUE, FALSE, TRUE>>
                            ELSE <<FALSE, FALSE, FALSE>>]>>

IsFinite(vertex) == vertex

\* for (let i = 0; i < polygon.length; i += 1) { ... coords.push([x, y]) }
FiniteCoords(cell) == SelectSeq(cell.polygon, IsFinite)

\* points.forEach((_, index) => { ... }): grouped, as the sequence of the
\* segment ids in insertion order with the geometries of each.
RECURSIVE GroupCells(_, _, _, _, _)
GroupCells(points, kept, defect, index, grouped) ==
    IF index > Len(points) THEN grouped
    ELSE LET polygon == CellPolygon(points, kept, index, defect)
             coords == FiniteCoords(polygon[1])
             segmentId == points[index].segmentId
             geometry == [index |-> index,
                          region |-> IF coords = polygon[1].polygon
                                       THEN polygon[1].region
                                       ELSE polygon[1].region \ defect.cut,
                          polygon |-> polygon[1].polygon, coords |-> coords]
             at == {k \in 1..Len(grouped) : grouped[k].segmentId = segmentId}
             next ==
               IF polygon = <<>> THEN grouped
               ELSE IF coords = <<>> THEN grouped
               ELSE IF at = {}
                 THEN Append(grouped, [segmentId |-> segmentId,
                                       geometries |-> <<geometry>>])
               ELSE [k \in 1..Len(grouped) |->
                       IF k \in at
                         THEN [grouped[k] EXCEPT
                                 !.geometries = Append(@, geometry)]
                         ELSE grouped[k]]
         IN  GroupCells(points, kept, defect, index + 1, next)

UnionEntryKeepsFirst(entry, throws) ==
    IF throws = entry.segmentId /\ Len(entry.geometries) > 1
      THEN [threw |-> TRUE, polygons |-> <<>>]
      ELSE [threw |-> FALSE,
            polygons |-> <<[id |-> entry.segmentId,
                            cells |-> <<entry.geometries[1]>>]>>]

\* geometries.forEach(...) and martinezToPolygons for one entry of grouped:
\* union is called from the second geometry on, and throws for the spine
\* throws; the polygons of the entry are given as one, with its cells.
UnionEntry(entry, throws) ==
    IF throws = entry.segmentId /\ Len(entry.geometries) > 1
      THEN [threw |-> TRUE, polygons |-> <<>>]
      ELSE [threw |-> FALSE,
            polygons |-> <<[id |-> entry.segmentId,
                            cells |-> entry.geometries]>>]

\* Object.entries(grouped).forEach(...): an exception of union leaves the
\* loop and the function.
RECURSIVE UnionEntries(_, _, _, _)
UnionEntries(grouped, throws, k, result) ==
    IF k > Len(grouped) THEN [threw |-> FALSE, polygons |-> result]
    ELSE LET entry == UnionEntry(grouped[k], throws)
         IN  IF entry.threw THEN [threw |-> TRUE, polygons |-> <<>>]
             ELSE UnionEntries(grouped, throws, k + 1,
                               result \o entry.polygons)

\* function computeVoronoiPolygons(segments, mask, spacing), for the cells
\* the library gives with keepers and defect.
VoronoiPolygons(segs, sp, kept, defect, throws) ==
    IF segs = <<>> THEN [threw |-> FALSE, polygons |-> <<>>]
    ELSE LET points == BuildSampledPoints(segs, sp)
             grouped == GroupCells(points, kept, defect, 1, <<>>)
         IN  UnionEntries(grouped, throws, 1, <<>>)

(***************************************************************************)
(* The vectorizer (tracing.ts).  The trace data of imagetracerjs is taken  *)
(* as it comes: layers of paths, a path being null or a list of segments.  *)
(* A coordinate is a whole number of ten-thousandths.                      *)
(***************************************************************************)
Seg(p, q) == [x1 |-> p.x, y1 |-> p.y, x2 |-> q.x, y2 |-> q.y]

Origin == [x |-> 0, y |-> 0]

Right == [x |-> 20000, y |-> 0]

Below == [x |-> 0, y |-> 20000]

NullPath == [present |-> FALSE, segments |-> <<>>]

Ring(p, q, r) ==
    [present |-> TRUE, segments |-> <<Seg(p, q), Seg(q, r), Seg(r, p)>>]

\* The paths of a layer: null, without segments, of 1 segment (2 points),
\* of 2 segments (3 points), and rings of 4 points, of which three start
\* within 0.0005 of one another.
TracedPaths ==
    {NullPath,
     [present |-> TRUE, segments |-> <<>>],
     [present |-> TRUE, segments |-> <<Seg(Origin, Right)>>],
     [present |-> TRUE, segments |-> <<Seg(Origin, Right), Seg(Right, Below)>>],
     Ring(Origin, Right, Below),
     Ring([x |-> 4, y |-> 0], Right, Below),
     Ring([x |-> -4, y |-> 0], Right, Below),
     Ring(Right, Below, Origin)}

\* Number.prototype.toFixed(3): the sign, and the thousandths nearest to
\* the absolute value (the larger of two equally near).
ToFixed3(c) ==
    [negative |-> c < 0, n |-> ((IF c < 0 THEN 0 - c ELSE c) + 5) \div 10]

\* points.map((p) => `${p.x.toFixed(3)},${p.y.toFixed(3)}`).join("|")
SignatureKey(points) ==
    [k \in 1..Len(points) |-> <<ToFixed3(points[k].x), ToFixed3(points[k].y)>>]

\* path.segments.forEach(...): the start of the first segment, then the end
\* of every segment.
PathPoints(path) ==
    IF path.segments = <<>> THEN <<>>
    ELSE <<[x |-> path.segments[1].x1, y |-> path.segments[1].y1]>> \o
         [k \in 1..Len(path.segments) |->
            [x |-> path.segments[k].x2, y |-> path.segments[k].y2]]

TracePathKeepsPairs(acc, path, layerIndex, pathIndex) ==
    IF ~path.present \/ Len(path.segments) = 0 THEN acc
    ELSE LET points == PathPoints(path)
             key == SignatureKey(points)
         IN  IF Len(points) < 2 \/ key \in acc.seen THEN acc
             ELSE [polygons |-> Append(acc.polygons,
                                       [id |-> <<layerIndex, pathIndex>>,
                                        points |-> points]),
                   seen |-> acc.seen \union {key}]

\* The body of layer.forEach((path, pathIndex) => { ... }).
TracePath(acc, path, layerIndex, pathIndex) ==
    IF ~path.present \/ Len(path.segments) = 0 THEN acc
    ELSE LET points == PathPoints(path)
             key == SignatureKey(points)
         IN  IF Len(points) < 3 \/ key \in acc.seen THEN acc
             ELSE [polygons |-> Append(acc.polygons,
                                       [id |-> <<layerIndex, pathIndex>>,
                                        points |-> points]),
                   seen |-> acc.seen \union {key}]

\* layer.forEach(...), up to the path at position upto of the layer.
RECURSIVE TraceLayer(_, _, _, _)
TraceLayer(acc, layer, layerIndex, upto) ==
    IF upto = 0 THEN acc
    ELSE TracePath(TraceLayer(acc, layer, layerIndex, upto - 1),
                   layer[upto], layerIndex, upto - 1)

\* traced.layers.forEach(...), up to the layer at position upto.
RECURSIVE TraceLayers(_, _)
TraceLayers(layers, upto) ==
    IF upto = 0 THEN [polygons |-> <<>>, seen |-> {}]
    ELSE TraceLayer(TraceLayers(layers, upto - 1), layers[upto], upto - 1,
                    Len(layers[upto]))

ShiftNothing(polygons) == polygons

\* polygons.shift(), for what it leaves in polygons.
Shift(polygons) == IF polygons = <<>> THEN <<>> ELSE Tail(polygons)

\* export function traceBinaryBitmap(bitmap), for the trace data the tracer
\* gives, or its exception.
TracePolygons(layers, throws) ==
    IF throws THEN <<>>
    ELSE Shift(TraceLayers(layers, Len(layers)).polygons)

(***************************************************************************)
(* The mask editing functions (logic/mask.ts).  A mask is the sequence of  *)
(* its points; an index counts from 0 as in the code.                      *)
(***************************************************************************)
MIN_POINTS == 3

\* The points a click can add to a mask.
MaskClicks == {"p", "q"}

\* a % n of JavaScript: the remainder has the sign of a.
Remainder(a, n) == IF a >= 0 THEN a % n ELSE 0 - ((0 - a) % n)

\* export function insertPointIntoSegment(mask, segmentIndex, point)
InsertPointIntoSegment(points, segmentIndex, point) ==
    IF Len(points) = 0 THEN points
    ELSE LET index == Remainder(Remainder(segmentIndex, Len(points))
                                  + Len(points), Len(points))
             insertAt == index + 1
         IN  SubSeq(points, 1, insertAt) \o <<point>> \o
             SubSeq(points, insertAt + 1, Len(points))

DeleteMaskPointUnguarded(points, pointIndex) ==
    IF pointIndex < 0 \/ pointIndex >= Len(points) THEN points
    ELSE SubSeq(points, 1, pointIndex) \o
         SubSeq(points, pointIndex + 2, Len(points))

\* export function deleteMaskPoint(mask, pointIndex)
DeleteMaskPoint(points, pointIndex) ==
    IF Len(points) <= MIN_POINTS THEN points
    ELSE IF pointIndex < 0 \/ pointIndex >= Len(points) THEN points
    ELSE LET newPoints == SubSeq(points, 1, pointIndex) \o
                          SubSeq(points, pointIndex + 2, Len(points))
         IN  IF Len(newPoints) < MIN_POINTS THEN points ELSE newPoints

(***************************************************************************)
(* The scheduler.                                                          *)
(***************************************************************************)
\* function scheduleNextComputation()
ScheduleNextComputation(pending, computing, timeout, armed) ==
    IF pending = NoRequest \/ computing \/ timeout
      THEN [pendingTimeout |-> timeout, timers |-> armed]
      ELSE [pendingTimeout |-> TRUE, timers |-> armed + 1]

KeepFirstPending(pending, data) ==
    IF pending = NoRequest THEN data ELSE pending

\* latestPending = event.data
StoreLatest(pending, data) == data

KeepPendingOnRun(pending) == pending

\* latestPending = null, in runNextComputation
ConsumePending(pending) == NoRequest

LeaveComputingOnThrow(responses) ==
    \E i \in 1..Len(responses) : Has(responses[i], "error")

\* finally { isComputing = false }
ComputingAfterRun(responses) == FALSE

Pixels == 0..(RasterWidth * RasterHeight - 1)

Configs ==
    [gapPx : 0..MaxGap, roundPx : 0..MaxRound,
     noiseAmplitude : {NoiseStep * k : k \in 0..MaxNoiseSteps},
     noiseSeed : NoiseSeeds]

NoConfig == [gapPx |-> 0, roundPx |-> 0, noiseAmplitude |-> 0, noiseSeed |-> 0]

SchedulerInit ==
    /\ isComputing = FALSE
    /\ latestPending = NoRequest
    /\ pendingTimeout = FALSE
    /\ timers = 0
    /\ microtasks = <<>>
    /\ inbox = <<>>
    /\ outbox = {}
    /\ requestIdRef = 0
    /\ latestCompletedRef = 0
    /\ piecePolygons = <<>>
    /\ svgString = <<>>
    /\ posted = 0
    /\ handled = <<>>
    /\ runs = <<>>
    /\ lastRun = NoRun
    /\ maxSeen = 0
    /\ lastReceived = NoDelivery
    /\ sentInYield = FALSE

MorphIdle ==
    /\ cachedNoiseSeed = 0
    /\ cachedNoise2D = 0
    /\ lastConfig = NoConfig
    /\ seedsMade = {}
    /\ lastInward = <<>>
    /\ lastShrinkMask = <<>>
    /\ lastOutward = <<>>
    /\ lastFinalMask = <<>>

NoResult == [done |-> FALSE, threw |-> FALSE, polygons |-> <<>>]

PartitionIdle ==
    /\ segments = <<>>
    /\ spacing = 20
    /\ keepers = {}
    /\ cellDefect = NoDefect
    /\ unionThrows = 0
    /\ voronoiResult = NoResult

NoTrace == [done |-> FALSE, polygons |-> <<>>]

TraceIdle ==
    /\ traceData = <<>>
    /\ traceFails = FALSE
    /\ traceResult = NoTrace

NoMaskEdit == [op |-> "none", index |-> 0, before |-> <<>>]

\* The mask before any edit: the triangle the editor starts from.
MaskIdle ==
    /\ maskPoints = <<"a", "b", "c">>
    /\ lastMaskEdit = NoMaskEdit

\* An EditorSnapshot (EditorPane.tsx:70-80) that holds nothing.
NoScene == [mask |-> <<>>, segments |-> <<>>, connectors |-> <<>>, gap |-> 0]

NoSelection == [mask |-> 0 - 1, segment |-> 0, connector |-> 0]

NoDrag == [kind |-> "none", maskIndex |-> 0]

NoPrior == [scene |-> NoScene, undo |-> 0, redo |-> 0]

NoEditorAction ==
    [op |-> "none", before |-> NoScene, gestureChanged |-> FALSE,
     prior |-> NoPrior]

\* The editor as it is mounted: the default mask, nothing drawn, both
\* stacks empty.
EditorIdle ==
    /\ editorScene = [mask |-> <<"a", "b", "c">>, segments |-> <<>>,
                connectors |-> <<>>, gap |-> 1]
    /\ undoStack = <<>>
    /\ redoStack = <<>>
    /\ dragUndoCaptured = FALSE
    /\ dragInfo = NoDrag
    /\ selection = NoSelection
    /\ editorLog = NoEditorAction

PaneIdle == TraceIdle /\ MaskIdle /\ EditorIdle

Init ==
    /\ SchedulerInit
    /\ MorphIdle
    /\ PartitionIdle
    /\ PaneIdle
    /\ noiseLib = 0
    /\ maskBitmap = [i \in Pixels |-> 0]

\* useWorker's second effect: a dependency changed, post a request.
PostRequest ==
    /\ requestIdRef < MaxRequests
    /\ \E scene \in Scenes :
         LET id == requestIdRef + 1 IN
           /\ requestIdRef' = id
           /\ inbox' = Append(inbox, WorkerRequest(id, scene))
    /\ sentInYield' = (sentInYield \/ microtasks # <<>>)
    /\ UNCHANGED <<workerVars, outbox, latestCompletedRef, piecePolygons,
                   svgString, posted, observerVars>>
    /\ UNCHANGED <<morphVars, partitionVars, paneVars>>

\* ctx.addEventListener("message", ...)
OnMessage ==
    /\ inbox # <<>>
    /\ microtasks = <<>>
    /\ LET data == Head(inbox)
           pending == StoreLatest(latestPending, data)
           sched == ScheduleNextComputation(pending, isComputing,
                                            pendingTimeout, timers)
       IN  /\ latestPending' = pending
           /\ pendingTimeout' = sched.pendingTimeout
           /\ timers' = sched.timers
           /\ handled' = Append(handled, data)
    /\ inbox' = Tail(inbox)
    /\ UNCHANGED <<isComputing, microtasks, outbox, consumerVars, posted,
                   runs, lastRun, maxSeen, lastReceived, sentInYield>>
    /\ UNCHANGED <<morphVars, partitionVars, paneVars>>

\* The setTimeout callback, with the synchronous part of
\* runNextComputation() it calls.
TimerFires ==
    /\ timers > 0
    /\ microtasks = <<>>
    /\ timers' = timers - 1
    /\ pendingTimeout' = FALSE
    /\ IF ~isComputing /\ latestPending # NoRequest
         THEN /\ latestPending' = ConsumePending(latestPending)
              /\ isComputing' = TRUE
              /\ microtasks' = Append(microtasks, latestPending)
              /\ runs' = Append(runs, [req |-> latestPending,
                                       upto |-> Len(handled)])
              /\ sentInYield' = FALSE
         ELSE UNCHANGED <<latestPending, isComputing, microtasks, runs,
                          sentInYield>>
    /\ UNCHANGED <<inbox, outbox, consumerVars, posted, handled, lastRun,
                   maxSeen, lastReceived>>
    /\ UNCHANGED <<morphVars, partitionVars, paneVars>>

\* The microtask queued by runNextComputation(): try / catch / finally.
RunMicrotask ==
    /\ microtasks # <<>>
    /\ \E surface \in BOOLEAN, fault \in Faults :
         LET request == Head(microtasks)
             responses == Pipeline(request, surface, fault)
             computing == ComputingAfterRun(responses)
             sched == IF latestPending # NoRequest
                        THEN ScheduleNextComputation(latestPending, computing,
                                                     pendingTimeout, timers)
                        ELSE [pendingTimeout |-> pendingTimeout,
                              timers |-> timers]
         IN  /\ outbox' = outbox \cup
                  {[n |-> posted + i, msg |-> responses[i]] :
                     i \in 1..Len(responses)}
             /\ posted' = posted + Len(responses)
             /\ lastRun' = [run |-> Len(runs), req |-> request,
                            surface |-> surface, fault |-> fault,
                            responses |-> responses]
             /\ isComputing' = computing
             /\ pendingTimeout' = sched.pendingTimeout
             /\ timers' = sched.timers
    /\ microtasks' = Tail(microtasks)
    /\ UNCHANGED <<latestPending, inbox, consumerVars, handled, runs,
                   maxSeen, lastReceived, sentInYield>>
    /\ UNCHANGED <<morphVars, partitionVars, paneVars>>

Max(a, b) == IF a >= b THEN a ELSE b

DeliverAppliesStale ==
    /\ \E m \in outbox :
         LET msg == m.msg
             applied == ~Has(msg, "error")
         IN  /\ outbox' = outbox \ {m}
             /\ IF Has(msg, "error")
                  THEN UNCHANGED <<latestCompletedRef, piecePolygons, svgString>>
                ELSE /\ latestCompletedRef' = msg.id
                     /\ piecePolygons' = msg.piecePolygons
                     /\ svgString' = msg.svgString
             /\ lastReceived' = [msg |-> msg, maxBefore |-> maxSeen,
                                 applied |-> applied]
             /\ maxSeen' = Max(maxSeen, msg.id)
    /\ UNCHANGED <<workerVars, inbox, requestIdRef, posted, handled, runs,
                   lastRun, sentInYield>>
    /\ UNCHANGED <<morphVars, partitionVars, paneVars>>

DeliverClearsOnError ==
    /\ \E m \in outbox :
         LET msg == m.msg
             applied == ~(msg.id < latestCompletedRef)
         IN  /\ outbox' = outbox \ {m}
             /\ IF msg.id < latestCompletedRef
                  THEN UNCHANGED <<latestCompletedRef, piecePolygons, svgString>>
                ELSE /\ latestCompletedRef' = msg.id
                     /\ piecePolygons' = IF Has(msg, "piecePolygons")
                                           THEN msg.piecePolygons ELSE <<>>
                     /\ svgString' = IF Has(msg, "svgString")
                                       THEN msg.svgString ELSE <<>>
             /\ lastReceived' = [msg |-> msg, maxBefore |-> maxSeen,
                                 applied |-> applied]
             /\ maxSeen' = Max(maxSeen, msg.id)
    /\ UNCHANGED <<workerVars, inbox, requestIdRef, posted, handled, runs,
                   lastRun, sentInYield>>
    /\ UNCHANGED <<morphVars, partitionVars, paneVars>>

\* worker.onmessage in useWorker; the responses in flight are delivered in
\* any order.
Deliver ==
    /\ \E m \in outbox :
         LET msg == m.msg
             applied == ~Has(msg, "error") /\ ~(msg.id < latestCompletedRef)
         IN  /\ outbox' = outbox \ {m}
             /\ IF Has(msg, "error")
                  THEN UNCHANGED <<latestCompletedRef, piecePolygons, svgString>>
                ELSE IF msg.id < latestCompletedRef
                  THEN UNCHANGED <<latestCompletedRef, piecePolygons, svgString>>
                ELSE /\ latestCompletedRef' = msg.id
                     /\ piecePolygons' = msg.piecePolygons
                     /\ svgString' = msg.svgString
             /\ lastReceived' = [msg |-> msg, maxBefore |-> maxSeen,
                                 applied |-> applied]
             /\ maxSeen' = Max(maxSeen, msg.id)
    /\ UNCHANGED <<workerVars, inbox, requestIdRef, posted, handled, runs,
                   lastRun, sentInYield>>
    /\ UNCHANGED <<morphVars, partitionVars, paneVars>>

Next ==
    \/ PostRequest
    \/ OnMessage
    \/ TimerFires
    \/ RunMicrotask
    \/ Deliver

Spec == Init /\ [][Next]_vars

\* The morphology of the microtask on its own: the raster the rasterizer
\* returned and the noise function are drawn at the start, and each run
\* takes the config of its request.
MorphInit ==
    /\ SchedulerInit
    /\ MorphIdle
    /\ PartitionIdle
    /\ PaneIdle
    /\ noiseLib \in NoiseLibs
    /\ maskBitmap \in [Pixels -> {0, 255}]

\* voronoiWorker.ts:105-157, from the noise cache to finalMask.  The
\* statements of the microtask run in order: each array is complete before
\* the next statement reads it.
MorphRun ==
    /\ \E cfg \in Configs :
         LET cache == NoiseCache(cachedNoiseSeed, cachedNoise2D, cfg)
             generator == cache.cachedNoise2D
         IN  \E inward \in {ComputeDistanceField(RasterWidth, RasterHeight,
                                                  maskBitmap)} :
             \E shrunk \in {ShrinkMask(RasterWidth, RasterHeight,
                                       inward, cfg)} :
             \E field \in {OutwardField(noiseLib, generator, RasterWidth,
                                        RasterHeight, shrunk, cfg)} :
               /\ lastConfig' = cfg
               /\ cachedNoise2D' = generator
               /\ cachedNoiseSeed' = cache.cachedNoiseSeed
               /\ seedsMade' = seedsMade \union cache.made
               /\ lastInward' = inward
               /\ lastShrinkMask' = shrunk
               /\ lastOutward' = field
               /\ lastFinalMask' = FinalMask(shrunk, field, cfg)
    /\ UNCHANGED <<schedulerVars, noiseLib, maskBitmap, partitionVars,
                   paneVars>>

MorphNext == MorphRun

SpecMorph == MorphInit /\ [][MorphNext]_vars

\* The partition on its own: the spines and the spacing of the request, and
\* what the libraries do with them (the cells with non-finite vertices, the
\* spine on which union throws), are drawn at the start.
SpineLists ==
    UNION {{spines \in [1..n -> Geometries] :
              \A j, k \in 1..n : spines[j] = spines[k] => j = k} :
           n \in 0..MaxSpines}

PartitionInit ==
    /\ SchedulerInit
    /\ MorphIdle
    /\ PaneIdle
    /\ noiseLib = 0
    /\ maskBitmap = [i \in Pixels |-> 0]
    /\ \E spines \in SpineLists :
         /\ segments = [k \in 1..Len(spines) |->
                          [id |-> k, start |-> spines[k].start,
                           end |-> spines[k].end]]
         /\ cellDefect \in Defects(1..Len(spines))
         /\ unionThrows \in 0..Len(spines)
    /\ spacing \in Spacings
    /\ keepers = {}
    /\ voronoiResult = NoResult

\* computeVoronoiPolygons(segments, mask, spacing), called by the worker
\* (voronoiWorker.ts:79); keepers are the samples the triangulation kept.
PartitionRun ==
    /\ ~voronoiResult.done
    /\ \E kept \in KeeperSets(BuildSampledPoints(segments, spacing)) :
         /\ keepers' = kept
         /\ voronoiResult' =
              [done |-> TRUE] @@
              VoronoiPolygons(segments, spacing, kept, cellDefect, unionThrows)
    /\ UNCHANGED <<schedulerVars, morphVars, segments, spacing, cellDefect,
                   unionThrows, paneVars>>

PartitionNext == PartitionRun

SpecPartition == PartitionInit /\ [][PartitionNext]_vars

\* The vectorizer on its own: the trace data the tracer gives for the
\* preview bitmap (the paths of its two layers, one per colour), or its
\* exception, is drawn at the start.
TracedLayers ==
    UNION {[1..n -> TracedPaths] : n \in 0..MaxContours}

TraceInit ==
    /\ SchedulerInit
    /\ MorphIdle
    /\ PartitionIdle
    /\ noiseLib = 0
    /\ maskBitmap = [i \in Pixels |-> 0]
    /\ \E paths \in TracedLayers : \E k \in 0..Len(paths) :
         traceData = <<SubSeq(paths, 1, k), SubSeq(paths, k + 1, Len(paths))>>
    /\ traceFails \in BOOLEAN
    /\ traceResult = NoTrace
    /\ MaskIdle
    /\ EditorIdle

\* traceBinaryBitmap(previewBitmap), called by the worker
\* (voronoiWorker.ts:182).
TraceRun ==
    /\ ~traceResult.done
    /\ traceResult' = [done |-> TRUE,
                       polygons |-> TracePolygons(traceData, traceFails)]
    /\ UNCHANGED <<schedulerVars, morphVars, partitionVars, traceData,
                   traceFails, maskVars, editorVars>>

TraceNext == TraceRun

SpecTrace == TraceInit /\ [][TraceNext]_vars

\* The mask editing on its own: a mask of at least MIN_POINTS points, and
\* any sequence of insertions and deletions at any index.
MaskInit ==
    /\ SchedulerInit
    /\ MorphIdle
    /\ PartitionIdle
    /\ TraceIdle
    /\ noiseLib = 0
    /\ maskBitmap = [i \in Pixels |-> 0]
    /\ maskPoints \in {<<"a", "b", "c">>, <<"a", "b", "c", "d">>}
    /\ lastMaskEdit = NoMaskEdit
    /\ EditorIdle

\* The indices of a call: from below -length to above length.
MaskIndices == (0 - MaxMaskPoints - 1)..(MaxMaskPoints + 1)

\* updatedMask = insertPointIntoSegment(mask, segmentIndex, clickPoint)
InsertPoint ==
    /\ Len(maskPoints) < MaxMaskPoints
    /\ \E segmentIndex \in MaskIndices, point \in MaskClicks :
         /\ maskPoints' = InsertPointIntoSegment(maskPoints, segmentIndex,
                                                 point)
         /\ lastMaskEdit' = [op |-> "insert", index |-> segmentIndex,
                             before |-> maskPoints]
    /\ UNCHANGED <<schedulerVars, morphVars, partitionVars, traceVars,
                   editorVars>>

\* updatedMask = deleteMaskPoint(mask, selectedPoint)
DeletePoint ==
    /\ \E pointIndex \in MaskIndices :
         /\ maskPoints' = DeleteMaskPoint(maskPoints, pointIndex)
         /\ lastMaskEdit' = [op |-> "delete", index |-> pointIndex,
                             before |-> maskPoints]
    /\ UNCHANGED <<schedulerVars, morphVars, partitionVars, traceVars,
                   editorVars>>

MaskNext == InsertPoint \/ DeletePoint

SpecMask == MaskInit /\ [][MaskNext]_vars

(***************************************************************************)
(* The editor's undo and redo (panes/EditorPane.tsx).  The scene is what   *)
(* an EditorSnapshot holds: the mask's points, the segments and the        *)
(* connectors by id, and the gap of the shaping config.  A handler sees    *)
(* the scene of the latest render.                                         *)
(***************************************************************************)
\* The values of the gap slider.
EditorGaps == {1, 2}

\* const cloneSnapshot = useCallback((): EditorSnapshot => ...)
CloneSnapshot(current) ==
    [mask |-> [i \in 1..Len(current.mask) |-> current.mask[i]],
     segments |-> [i \in 1..Len(current.segments) |-> current.segments[i]],
     connectors |->
         [i \in 1..Len(current.connectors) |-> current.connectors[i]],
     gap |-> current.gap]

\* const pushUndoSnapshot = useCallback(() => ...)
PushUndoSnapshot(undo, redo, current) ==
    [undo |-> Append(undo, CloneSnapshot(current)), redo |-> <<>>]

\* Whether the undo stack has room for one more snapshot.
StackRoom == Len(undoStack) < MaxSnapshots

\* What the log keeps of an action that leaves the scene at next: the scene
\* before it when it is an edit that changed the scene, a move or a slider
\* change after the first of its gesture being part of the same edit.
Logged(next, continues) ==
    [op |-> "edit",
     before |-> IF next # editorScene /\ ~(continues /\ editorLog.gestureChanged)
                  THEN editorScene ELSE editorLog.before,
     gestureChanged |-> continues /\ (editorLog.gestureChanged \/ next # editorScene),
     prior |-> NoPrior]

\* items.filter((item) => item.id !== id)
WithoutId(items, id) == SelectSeq(items, LAMBDA item : item # id)

\* The places of a mask a pointer goes down on: its last point, and the
\* closing edge that starts there.
HitIndices(points) == {Len(points) - 1}

\* The ids in use: those of the segments and connectors of a snapshot.
IdsOf(snapshot) ==
    {snapshot.segments[i] : i \in 1..Len(snapshot.segments)} \cup
    {snapshot.connectors[i] : i \in 1..Len(snapshot.connectors)}

\* crypto.randomUUID(): an id that neither the scene nor a snapshot holds.
FreshId ==
    LET used == IdsOf(editorScene) \cup
                UNION {IdsOf(undoStack[i]) : i \in 1..Len(undoStack)} \cup
                UNION {IdsOf(redoStack[i]) : i \in 1..Len(redoStack)}
    IN  CHOOSE id \in 1..(Cardinality(used) + 1) : id \notin used

\* handlePointerDown on a point of the mask: selects it and starts a drag.
PointerDownMaskPoint ==
    /\ \E maskIdx \in HitIndices(editorScene.mask) :
         /\ selection' = [NoSelection EXCEPT !.mask = maskIdx]
         /\ dragInfo' = [kind |-> "mask", maskIndex |-> maskIdx]
    /\ dragUndoCaptured' = FALSE
    /\ editorLog' = Logged(editorScene, FALSE)
    /\ UNCHANGED <<editorScene, undoStack, redoStack>>
    /\ UNCHANGED <<schedulerVars, morphVars, partitionVars, traceVars,
                   maskVars>>

\* handlePointerDown on an edge of the mask: inserts a point there.
PointerDownMaskEdge ==
    /\ StackRoom
    /\ \E maskSegIdx \in HitIndices(editorScene.mask) :
         LET pushed == PushUndoSnapshot(undoStack, redoStack, editorScene)
             next == [editorScene EXCEPT
                        !.mask = InsertPointIntoSegment(@, maskSegIdx, "p")]
         IN  /\ undoStack' = pushed.undo
             /\ redoStack' = pushed.redo
             /\ editorScene' = next
             /\ selection' = [NoSelection EXCEPT !.mask = maskSegIdx + 1]
             /\ dragInfo' = [kind |-> "mask", maskIndex |-> maskSegIdx + 1]
             /\ editorLog' = Logged(next, FALSE)
    /\ UNCHANGED dragUndoCaptured
    /\ UNCHANGED <<schedulerVars, morphVars, partitionVars, traceVars,
                   maskVars>>

\* handlePointerDown that hits nothing: a right click creates a connector,
\* a left click a segment when both its ends are inside the mask.
PointerDownCanvas ==
    /\ StackRoom
    /\ \E isRightClick \in BOOLEAN, inside \in BOOLEAN :
         LET pushed == PushUndoSnapshot(undoStack, redoStack, editorScene)
             id == FreshId
             next == IF isRightClick
                       THEN [editorScene EXCEPT !.connectors = Append(@, id)]
                     ELSE IF inside
                       THEN [editorScene EXCEPT !.segments = Append(@, id)]
                     ELSE editorScene
         IN  /\ undoStack' = pushed.undo
             /\ redoStack' = pushed.redo
             /\ editorScene' = next
             /\ selection' =
                  IF isRightClick
                    THEN [NoSelection EXCEPT !.connector = id]
                  ELSE IF inside THEN [NoSelection EXCEPT !.segment = id]
                  ELSE [selection EXCEPT !.mask = 0 - 1]
             /\ editorLog' = Logged(next, FALSE)
    /\ UNCHANGED <<dragUndoCaptured, dragInfo>>
    /\ UNCHANGED <<schedulerVars, morphVars, partitionVars, traceVars,
                   maskVars>>

\* handlePointerMove while a point of the mask is dragged.
PointerMove ==
    /\ dragInfo.kind = "mask"
    /\ dragUndoCaptured \/ StackRoom
    /\ LET pushed == IF dragUndoCaptured
                       THEN [undo |-> undoStack, redo |-> redoStack]
                       ELSE PushUndoSnapshot(undoStack, redoStack, editorScene)
           nextPoints == [i \in 1..Len(editorScene.mask) |->
                            IF i - 1 = dragInfo.maskIndex
                              THEN "q" ELSE editorScene.mask[i]]
           next == [editorScene EXCEPT !.mask = nextPoints]
       IN  /\ undoStack' = pushed.undo
           /\ redoStack' = pushed.redo
           /\ editorScene' = next
           /\ editorLog' = Logged(next, TRUE)
    /\ dragUndoCaptured' = TRUE
    /\ UNCHANGED <<dragInfo, selection>>
    /\ UNCHANGED <<schedulerVars, morphVars, partitionVars, traceVars,
                   maskVars>>

\* const clearDrag, on pointer up and on pointer leave
ClearDrag ==
    /\ dragInfo' = NoDrag
    /\ dragUndoCaptured' = FALSE
    /\ editorLog' = Logged(editorScene, FALSE)
    /\ UNCHANGED <<editorScene, undoStack, redoStack, selection>>
    /\ UNCHANGED <<schedulerVars, morphVars, partitionVars, traceVars,
                   maskVars>>

\* handleKeyDown on Delete or Backspace
HandleKeyDown ==
    /\ StackRoom
    /\ LET pushed == PushUndoSnapshot(undoStack, redoStack, editorScene)
           updated == DeleteMaskPoint(editorScene.mask, selection.mask)
           next ==
               IF selection.mask # 0 - 1
                 THEN [editorScene EXCEPT !.mask = updated]
               ELSE IF selection.segment # 0
                 THEN [editorScene EXCEPT
                         !.segments = WithoutId(@, selection.segment)]
               ELSE IF selection.connector # 0
                 THEN [editorScene EXCEPT
                         !.connectors = WithoutId(@, selection.connector)]
               ELSE editorScene
       IN  /\ undoStack' = pushed.undo
           /\ redoStack' = pushed.redo
           /\ editorScene' = next
           /\ selection' =
                IF selection.mask # 0 - 1
                  THEN IF updated # editorScene.mask
                         THEN [selection EXCEPT
                                 !.mask = IF @ < Len(updated) - 1
                                            THEN @ ELSE Len(updated) - 1]
                         ELSE selection
                ELSE IF selection.segment # 0
                  THEN [selection EXCEPT !.segment = 0]
                ELSE [selection EXCEPT !.connector = 0]
           /\ editorLog' = Logged(next, FALSE)
    /\ UNCHANGED <<dragUndoCaptured, dragInfo>>
    /\ UNCHANGED <<schedulerVars, morphVars, partitionVars, traceVars,
                   maskVars>>

\* handleSliderPointerDown on the gap slider
HandleSliderPointerDown ==
    /\ StackRoom
    /\ LET pushed == PushUndoSnapshot(undoStack, redoStack, editorScene)
       IN  /\ undoStack' = pushed.undo
           /\ redoStack' = pushed.redo
    /\ editorLog' = Logged(editorScene, FALSE)
    /\ UNCHANGED <<editorScene, dragUndoCaptured, dragInfo, selection>>
    /\ UNCHANGED <<schedulerVars, morphVars, partitionVars, traceVars,
                   maskVars>>

\* onChange of the gap slider: updateDistanceConfig({ gap })
SliderChange ==
    /\ \E gap \in EditorGaps \ {editorScene.gap} :
         LET next == [editorScene EXCEPT !.gap = gap]
         IN  /\ editorScene' = next
             /\ editorLog' = Logged(next, TRUE)
    /\ UNCHANGED <<undoStack, redoStack, dragUndoCaptured, dragInfo,
                   selection>>
    /\ UNCHANGED <<schedulerVars, morphVars, partitionVars, traceVars,
                   maskVars>>

\* const handleUndo, on Ctrl+Z
HandleUndo ==
    /\ undoStack # <<>>
    /\ LET current == CloneSnapshot(editorScene)
           previous == undoStack[Len(undoStack)]
       IN  /\ undoStack' = SubSeq(undoStack, 1, Len(undoStack) - 1)
           /\ redoStack' = Append(redoStack, current)
           /\ editorScene' = previous
    /\ selection' = NoSelection
    /\ dragInfo' = NoDrag
    /\ editorLog' = [op |-> "undo", before |-> NoScene,
                     gestureChanged |-> FALSE,
                     prior |-> [scene |-> editorScene, undo |-> Len(undoStack),
                                redo |-> Len(redoStack)]]
    /\ UNCHANGED dragUndoCaptured
    /\ UNCHANGED <<schedulerVars, morphVars, partitionVars, traceVars,
                   maskVars>>

HandleRedoForgetsCurrent ==
    /\ redoStack # <<>>
    /\ LET next == redoStack[Len(redoStack)]
       IN  /\ redoStack' = SubSeq(redoStack, 1, Len(redoStack) - 1)
           /\ undoStack' = undoStack
           /\ editorScene' = next
    /\ selection' = NoSelection
    /\ dragInfo' = NoDrag
    /\ editorLog' = [op |-> "redo", before |-> NoScene,
                     gestureChanged |-> FALSE,
                     prior |-> IF editorLog.op = "undo"
                                 THEN editorLog.prior ELSE NoPrior]
    /\ UNCHANGED dragUndoCaptured
    /\ UNCHANGED <<schedulerVars, morphVars, partitionVars, traceVars,
                   maskVars>>

\* const handleRedo, on Ctrl+Y
HandleRedo ==
    /\ redoStack # <<>>
    /\ LET current == CloneSnapshot(editorScene)
           next == redoStack[Len(redoStack)]
       IN  /\ redoStack' = SubSeq(redoStack, 1, Len(redoStack) - 1)
           /\ undoStack' = Append(undoStack, current)
           /\ editorScene' = next
    /\ selection' = NoSelection
    /\ dragInfo' = NoDrag
    /\ editorLog' = [op |-> "redo", before |-> NoScene,
                     gestureChanged |-> FALSE,
                     prior |-> IF editorLog.op = "undo"
                                 THEN editorLog.prior ELSE NoPrior]
    /\ UNCHANGED dragUndoCaptured
    /\ UNCHANGED <<schedulerVars, morphVars, partitionVars, traceVars,
                   maskVars>>

\* The editor on its own: any sequence of pointer, key and slider events.
EditorInit ==
    /\ SchedulerInit
    /\ MorphIdle
    /\ PartitionIdle
    /\ TraceIdle
    /\ MaskIdle
    /\ noiseLib = 0
    /\ maskBitmap = [i \in Pixels |-> 0]
    /\ EditorIdle

EditorNext ==
    \/ PointerDownMaskPoint
    \/ PointerDownMaskEdge
    \/ PointerDownCanvas
    \/ PointerMove
    \/ ClearDrag
    \/ HandleKeyDown
    \/ HandleSliderPointerDown
    \/ SliderChange
    \/ HandleUndo
    \/ HandleRedo

SpecEditor == EditorInit /\ [][EditorNext]_vars

\* Tasks and microtasks that are ready are eventually run by the event loop,
\* and a response in flight is eventually delivered.
FairSpec ==
    /\ Spec
    /\ WF_vars(OnMessage)
    /\ WF_vars(TimerFires)
    /\ WF_vars(RunMicrotask)
    /\ WF_vars(Deliver)

(***************************************************************************)
(* Properties of the scheduler and the consumer.                           *)
(***************************************************************************)
\* The requests run k was started for: those handled after the previous run
\* started, up to the start of run k.
BatchLow(k) == IF k = 1 THEN 0 ELSE runs[k - 1].upto

BatchHigh(k) == runs[k].upto

\* A request that has been submitted and that no run has consumed yet: it
\* is in latestPending, or still in the worker's message queue.
Waiting == latestPending # NoRequest \/ inbox # <<>>

LastRunFailed ==
    /\ lastRun.run > 0
    /\ \E i \in 1..Len(lastRun.responses) : Has(lastRun.responses[i], "error")

\* C1: the requests handled before a run starts get exactly one run, that
\* run executes the last of them (its id and its parameters), and none of
\* the earlier ones is run by any run.
C1_Coalescing ==
    /\ \A k \in 1..Len(runs) :
         /\ BatchLow(k) < BatchHigh(k)
         /\ runs[k].req = handled[BatchHigh(k)]
         /\ \A j \in (BatchLow(k) + 1)..(BatchHigh(k) - 1) :
              \A m \in 1..Len(runs) : runs[m].req.id # handled[j].id
    /\ lastRun.run > 0 => lastRun.req = runs[lastRun.run].req

\* Three requests were handled before the first run started, and that run
\* has been executed.
C1_Witness ==
    /\ Len(runs) >= 1
    /\ BatchHigh(1) >= 3
    /\ lastRun.run = 1
    /\ lastRun.req.id = 3

\* C2 (as claimed): a response is applied only if its id is the highest id
\* among all the responses received so far.
C2_AppliedOnlyIfHighestSeen ==
    lastReceived.applied => lastReceived.msg.id >= lastReceived.maxBefore

\* C3: at most one run is in flight, isComputing is true exactly while a
\* run is in flight, and latestPending holds nothing but the most recent
\* request handled, which no run has consumed.
C3_SingleInFlight ==
    /\ Len(microtasks) <= 1
    /\ isComputing <=> microtasks # <<>>
    /\ latestPending # NoRequest =>
         /\ handled # <<>>
         /\ latestPending = handled[Len(handled)]
         /\ \A m \in 1..Len(runs) : runs[m].req # latestPending

\* A run is in flight while two more requests wait in the message queue.
C3_Witness ==
    /\ isComputing
    /\ Len(microtasks) = 1
    /\ Len(inbox) >= 2

\* C4: a step of the message listener sets latestPending to the request it
\* received, whatever latestPending held, and leaves isComputing and the
\* request of the run in flight unchanged.
C4_SubmitOverwrites ==
    [][Len(handled') > Len(handled) =>
         /\ latestPending' = Head(inbox)
         /\ isComputing' = isComputing
         /\ microtasks' = microtasks]_vars

\* The listener has overwritten a request that was still pending.
C4_Witness ==
    /\ Len(handled) >= 2
    /\ latestPending = handled[Len(handled)]
    /\ \A m \in 1..Len(runs) : runs[m].upto <= Len(handled) - 2

CoreStages == {"tessellation", "rasterization", "distance", "morphology",
               "vectorization"}

LastRaised == RaisedIn(lastRun.req.scene, lastRun.surface, lastRun.fault)

\* C6 (as claimed): an exception raised in any of the five stages gives an
\* error response with the id of the request.
C6_EveryStageExceptionIsReported ==
    (lastRun.run > 0 /\ LastRaised \in CoreStages) =>
        lastRun.responses = <<ErrorResponse(lastRun.req.id)>>

\* C6 (amended): an exception raised in tessellation, rasterization, the
\* distance transform or the morphology gives an error response with the
\* id of the request; an exception raised in the tracer is caught by
\* traceBinaryBitmap and the run answers with an empty list of pieces.
C6_EscapingExceptionIsReported ==
    lastRun.run > 0 =>
        /\ LastRaised \in CoreStages \ {"vectorization"} =>
             lastRun.responses = <<ErrorResponse(lastRun.req.id)>>
        /\ LastRaised = "vectorization" =>
             /\ Len(lastRun.responses) = 1
             /\ lastRun.responses[1].id = lastRun.req.id
             /\ ~Has(lastRun.responses[1], "error")
             /\ lastRun.responses[1].piecePolygons = <<>>

\* The second run raised in the tessellation and answered with an error.
C6_Witness ==
    /\ lastRun.run = 2
    /\ LastRaised = "tessellation"
    /\ lastRun.responses = <<ErrorResponse(lastRun.req.id)>>

\* C7: after a failed run isComputing is false again, and a request that
\* waits after a failed run is eventually run (or a newer one in its place).
C7_FailedRunKeepsScheduler ==
    /\ []((LastRunFailed /\ microtasks = <<>>) => ~isComputing)
    /\ \A n \in 0..MaxRequests :
         (LastRunFailed /\ Waiting /\ Len(runs) = n) ~> (Len(runs) > n)

\* A run has been started after the failed run before it.
C7_Witness ==
    /\ LastRunFailed
    /\ Len(runs) = lastRun.run + 1
    /\ isComputing

\* C8: a run posts exactly one response, with the id of the request the run
\* consumed and with exactly one of piecePolygons and error.
C8_OneResponsePerRun ==
    /\ microtasks = <<>> => (lastRun.run = Len(runs) /\ posted = Len(runs))
    /\ lastRun.run > 0 =>
         /\ Len(lastRun.responses) = 1
         /\ lastRun.responses[1].id = runs[lastRun.run].req.id
         /\ Has(lastRun.responses[1], "piecePolygons")
               # Has(lastRun.responses[1], "error")

\* Two runs have completed, the second one for an empty scene.
C8_Witness ==
    /\ lastRun.run = 2
    /\ posted = 2
    /\ lastRun.req.scene = "blank"

\* The run reached the rasterizer, which found no drawing surface.
NoSurfaceRun ==
    /\ lastRun.run > 0
    /\ lastRun.req.scene # "blank"
    /\ lastRun.fault # "tessellation"
    /\ ~lastRun.surface

\* C9 (as claimed): without a drawing surface the response is an error.
C9_NoSurfaceIsAnError ==
    NoSurfaceRun =>
        \E i \in 1..Len(lastRun.responses) : Has(lastRun.responses[i], "error")

\* C9 (amended): without a drawing surface the run is cut short and its
\* only response is the empty result (no pieces, empty markup, no error).
C9_NoSurfaceIsAnEmptyResult ==
    NoSurfaceRun => lastRun.responses = <<EmptyResponse(lastRun.req.id)>>

\* A run for a scene with spines found no drawing surface.
C9_Witness ==
    /\ NoSurfaceRun
    /\ lastRun.fault = "none"
    /\ lastRun.responses = <<EmptyResponse(lastRun.req.id)>>


(***************************************************************************)
(* Properties of the morphology.                                           *)
(***************************************************************************)
MorphDone == DOMAIN lastFinalMask = Pixels

\* C10 (as claimed): the final mask keeps a pixel exactly when shrinkMask
\* holds there or the (noise-perturbed) outward distance is at most round.
C10_KeptIffShrunkOrRound ==
    MorphDone =>
        \A i \in Pixels :
            lastFinalMask[i] <=>
                (lastShrinkMask[i]
                   \/ FieldLeqHalf(lastOutward[i], RoundThreshold2(lastConfig)))

\* The kept-pixel set of a final mask.
Kept(mask) == {i \in DOMAIN mask : mask[i]}

\* Two configs that agree on gap, noise amplitude and seed.
SameButRound(c1, c2) ==
    /\ c1.gapPx = c2.gapPx
    /\ c1.noiseAmplitude = c2.noiseAmplitude
    /\ c1.noiseSeed = c2.noiseSeed

\* Two configs that agree on round, noise amplitude and seed.
SameButGap(c1, c2) ==
    /\ c1.roundPx = c2.roundPx
    /\ c1.noiseAmplitude = c2.noiseAmplitude
    /\ c1.noiseSeed = c2.noiseSeed

\* C11 (as claimed): when a run is followed by a run on the same raster
\* whose config differs only by a round that is at least as large, every
\* pixel the first run kept is kept by the second.
C11_MonotoneInRound ==
    [][(/\ MorphDone
        /\ SameButRound(lastConfig, lastConfig')
        /\ lastConfig.roundPx <= lastConfig'.roundPx)
          => Kept(lastFinalMask) \subseteq Kept(lastFinalMask')]_vars

\* C12: when a run is followed by a run on the same raster whose config
\* differs only by a gap that is at least as large, every pixel the second
\* run keeps was kept by the first.
C12_MonotoneInGap ==
    [][(/\ MorphDone
        /\ SameButGap(lastConfig, lastConfig')
        /\ lastConfig.gapPx <= lastConfig'.gapPx)
          => Kept(lastFinalMask') \subseteq Kept(lastFinalMask)]_vars

\* The latest run used a positive gap, and it keeps strictly fewer pixels
\* than a run on the same raster with gap 0 and otherwise the same config.
C12_Witness ==
    /\ MorphDone
    /\ lastConfig.gapPx > 0
    /\ \E i \in Pixels :
         /\ ~lastFinalMask[i]
         /\ MaskOf(noiseLib, lastConfig.noiseSeed, RasterWidth, RasterHeight,
                   maskBitmap, [lastConfig EXCEPT !.gapPx = 0])[i]
    /\ Kept(lastFinalMask) # {}

\* C13 (as claimed): a run with gap 0, round 0 and no noise keeps a pixel
\* exactly when the pixel is foreground (white) in the raw raster.
C13_ZeroConfigKeepsRaw ==
    (/\ MorphDone
     /\ lastConfig.gapPx = 0
     /\ lastConfig.roundPx = 0
     /\ lastConfig.noiseAmplitude = 0)
        => \A i \in Pixels : lastFinalMask[i] <=> maskBitmap[i] > 127

\* C14: the final mask of every run is the mask its raster and config
\* determine with the generator of the config's own seed, whatever runs
\* (and generators cached by them) came before; and without noise it is the
\* mask of the same config with any other seed.
C14_Deterministic ==
    MorphDone =>
        /\ lastFinalMask = MaskOf(noiseLib, lastConfig.noiseSeed, RasterWidth,
                                  RasterHeight, maskBitmap, lastConfig)
        /\ lastConfig.noiseAmplitude = 0 =>
             \A seed \in NoiseSeeds :
                lastFinalMask =
                    MaskOf(noiseLib, seed, RasterWidth, RasterHeight,
                           maskBitmap, [lastConfig EXCEPT !.noiseSeed = seed])

\* A run with noise that came after a run with another seed, on a raster
\* where the generator of that other seed would have given another mask.
C14_Witness ==
    /\ MorphDone
    /\ lastConfig.noiseAmplitude > 0
    /\ \E seed \in seedsMade \ {lastConfig.noiseSeed} :
          lastFinalMask # MaskOf(noiseLib, seed, RasterWidth, RasterHeight,
                                 maskBitmap, lastConfig)

\* The boundary-seed pixels of the raster (channel 0 <= 127), and the squared
\* Euclidean distance between two pixels.
Seeds == {i \in Pixels : maskBitmap[i] <= 127}

SqDist(i, j) ==
    LET dx == (i % RasterWidth) - (j % RasterWidth)
        dy == (i \div RasterWidth) - (j \div RasterWidth)
    IN  dx * dx + dy * dy

\* C15: on a raster with at least one seed pixel, the square of inward.field
\* at every pixel is the least squared Euclidean distance to a seed pixel
\* (so the field is zero everywhere on an all-seed raster).
C15_DistanceTransformCorrect ==
    (MorphDone /\ Seeds # {}) =>
        \A i \in Pixels :
            /\ lastInward.field[i].inf = 0
            /\ \E j \in Seeds : lastInward.field[i].fin = SqDist(i, j)
            /\ \A j \in Seeds : lastInward.field[i].fin <= SqDist(i, j)

\* A run on a raster with one seed: the seed at distance 0, a pixel beside
\* it at distance 1 and a pixel diagonal to it at distance sqrt(2).
C15_Witness ==
    /\ MorphDone
    /\ Cardinality(Seeds) = 1
    /\ \E i \in Pixels : lastInward.field[i] = Fin(2)
    /\ \E i \in Pixels : lastInward.field[i] = Fin(1)
    /\ \E i \in Pixels : lastInward.field[i] = Fin(0)

\* C16 (as claimed): on a raster without seed pixels, inward.field is the
\* sentinel-derived value at every pixel and inward.maxDistance is 0.
C16_NoSeedMaxDistanceZero ==
    (MorphDone /\ Seeds = {}) =>
        /\ \A i \in Pixels : lastInward.field[i] = INF
        /\ lastInward.maxDistance = Fin(0)


(***************************************************************************)
(* The partition.                                                          *)
(***************************************************************************)
PartitionDone == voronoiResult.done

Length2(segment) ==
    (segment.end.x - segment.start.x) * (segment.end.x - segment.start.x)
      + (segment.end.y - segment.start.y) * (segment.end.y - segment.start.y)

\* The samples of one spine: a list of at least 2, each tagged with the id
\* of the spine, from start to end in equal steps of at most spacing, and of
\* more than spacing * (steps - 1) / steps when there are more than 2 steps.
WellSampled(segment, sp, samples) ==
    LET steps == Len(samples) - 1
        dx == segment.end.x - segment.start.x
        dy == segment.end.y - segment.start.y
    IN  /\ Len(samples) >= 2
        /\ \A k \in 1..Len(samples) :
              /\ samples[k].segmentId = segment.id
              /\ samples[k].point.den = steps
        /\ samples[1].point.xn = segment.start.x * steps
        /\ samples[1].point.yn = segment.start.y * steps
        /\ samples[Len(samples)].point.xn = segment.end.x * steps
        /\ samples[Len(samples)].point.yn = segment.end.y * steps
        /\ \A k \in 1..steps :
              /\ samples[k + 1].point.xn - samples[k].point.xn = dx
              /\ samples[k + 1].point.yn - samples[k].point.yn = dy
        /\ Length2(segment) <= steps * steps * sp * sp
        /\ steps > 2 => Length2(segment) > (steps - 1) * (steps - 1) * sp * sp
        /\ Length2(segment) = 0 =>
              \A j, k \in 1..Len(samples) :
                 Coincident(samples[j].point, samples[k].point)
        /\ Length2(segment) = 40 * 40 /\ dy = 0 /\ sp = 20 =>
              /\ Len(samples) = 3
              /\ samples[2].point.xn = (segment.start.x + 20) * steps
              /\ samples[2].point.yn = segment.start.y * steps

\* C19: for every spine and spacing of a request, sampleSegmentPoints gives
\* a finite list of samples tagged with the spine's id, the first at the
\* start and the last at the end of the spine, at equal intervals of about
\* spacing; a zero-length spine gives at least 2 coincident samples, and a
\* straight spine of 40 units with spacing 20 exactly 3: the two ends and
\* the midpoint.
C19_SamplesSpanSpine ==
    \A k \in 1..Len(segments) :
       WellSampled(segments[k], spacing,
                   SampleSegmentPoints(segments[k], spacing))

\* A partition has run at spacing 20 on a request with a zero-length spine,
\* a spine of 40 units sampled 3 times and a longer one sampled 4 times.
C19_Witness ==
    /\ PartitionDone
    /\ spacing = 20
    /\ \E j, k, m \in 1..Len(segments) :
          /\ Length2(segments[j]) = 0
          /\ Length2(segments[k]) = 40 * 40
          /\ Len(SampleSegmentPoints(segments[k], spacing)) = 3
          /\ Len(SampleSegmentPoints(segments[m], spacing)) = 4

\* The cells computeVoronoiPolygons retained of the request, by spine.
Grouped ==
    GroupCells(BuildSampledPoints(segments, spacing), keepers, cellDefect,
               1, <<>>)

\* union was called for the spine unionThrows, and threw.
UnionFailed ==
    \E k \in 1..Len(Grouped) :
       /\ Grouped[k].segmentId = unionThrows
       /\ Len(Grouped[k].geometries) > 1

Returned(segmentId) ==
    {k \in 1..Len(voronoiResult.polygons) :
        voronoiResult.polygons[k].id = segmentId}

\* C17: when the union of one spine's cells fails, computeVoronoiPolygons
\* does not throw: it returns the ownership polygon of every other spine
\* that has cells, and nothing for the spine whose union failed.
C17_UnionFailureSkipsSpine ==
    PartitionDone /\ UnionFailed =>
       /\ ~voronoiResult.threw
       /\ Returned(unionThrows) = {}
       /\ \A k \in 1..Len(Grouped) :
             Grouped[k].segmentId # unionThrows =>
                \E j \in Returned(Grouped[k].segmentId) :
                   voronoiResult.polygons[j].cells = Grouped[k].geometries

\* The cells of the request that came back from the library with at least
\* one non-finite vertex.
CellsWithDefect ==
    LET points == BuildSampledPoints(segments, spacing)
    IN  {index \in keepers :
           \E cell \in {CellPolygon(points, keepers, index, cellDefect)[1]} :
              \E k \in 1..Len(cell.polygon) : ~IsFinite(cell.polygon[k])}

\* C18: a Voronoi cell with at least one non-finite vertex coordinate is
\* discarded as a whole: none of its vertices is among the cells the union
\* of its spine is made of.
C18_DefectCellDiscarded ==
    PartitionDone =>
       \A k \in 1..Len(Grouped) :
          \A j \in 1..Len(Grouped[k].geometries) :
             Grouped[k].geometries[j].index \notin CellsWithDefect

\* The squared distance from q to the nearest sample of a spine is less than
\* that to the nearest sample of another: some sample of the first is closer
\* to q than every sample of the other.
NearerSpine(q, a, b) ==
    LET points == BuildSampledPoints(segments, spacing)
    IN  \E j \in 1..Len(points) :
           /\ points[j].segmentId = a
           /\ \A k \in 1..Len(points) :
                 points[k].segmentId = b =>
                    Closer(q, points[j].point, points[k].point)

\* q lies inside the ownership region returned for a spine.
InRegion(q, segmentId) ==
    \E k \in Returned(segmentId) :
       \E j \in 1..Len(voronoiResult.polygons[k].cells) :
          q \in voronoiResult.polygons[k].cells[j].region

Spines == {segments[k].id : k \in 1..Len(segments)}

\* The result holds every cell of the spine as the library gave it.
Intact(segmentId) ==
    /\ ~voronoiResult.threw
    /\ cellDefect.spine # segmentId

TraceDone == traceResult.done

\* The contours of the trace data, by layer and place in the layer; the
\* tracer emitted them in the order Before.
Contours ==
    UNION {{<<l, p>> : p \in 1..Len(traceData[l])} : l \in 1..Len(traceData)}

Before(c, d) == c[1] < d[1] \/ (c[1] = d[1] /\ c[2] < d[2])

ContourPoints(c) == PathPoints(traceData[c[1]][c[2]])

NonDegenerate(c) == Len(ContourPoints(c)) >= 3

\* A contour that is not degenerate and repeats the signature of no earlier
\* such contour.
Distinct(c) ==
    /\ NonDegenerate(c)
    /\ \A d \in Contours :
          Before(d, c) /\ NonDegenerate(d) =>
             SignatureKey(ContourPoints(d)) # SignatureKey(ContourPoints(c))

Leading(set) == {c \in set : \A d \in set : ~Before(d, c)}

\* polygons holds the contours of set, in the order of the tracer, each
\* with the id of its layer and path, counted from 0.
InTracerOrder(polygons, set) ==
    /\ Len(polygons) = Cardinality(set)
    /\ \A c \in set :
          LET k == Cardinality({d \in set : Before(d, c)}) + 1
          IN  /\ polygons[k].id = <<c[1] - 1, c[2] - 1>>
              /\ polygons[k].points = ContourPoints(c)

\* C21 as stated: traceBinaryBitmap drops the first contour the tracer
\* emitted and returns every other distinct, non-degenerate contour, in
\* tracer order.
C21_DropsFirstEmitted ==
    TraceDone /\ ~traceFails /\ Contours # {} =>
       InTracerOrder(traceResult.polygons,
                     {c \in Contours : Distinct(c)} \ Leading(Contours))

\* C21: traceBinaryBitmap drops the first of the distinct, non-degenerate
\* contours the tracer emitted, if there is one, and returns every other of
\* them in tracer order; it returns no polygon when the tracer throws.
C21_DropsFirstRetained ==
    TraceDone =>
       IF traceFails THEN traceResult.polygons = <<>>
       ELSE LET retained == {c \in Contours : Distinct(c)}
            IN  InTracerOrder(traceResult.polygons,
                              retained \ Leading(retained))

\* A trace has run on data whose first contour is degenerate and which has
\* two distinct contours of 3 points or more: the first of the two was
\* dropped and the second returned.
C21_Witness ==
    /\ TraceDone
    /\ ~traceFails
    /\ \E c \in Leading(Contours) : ~NonDegenerate(c)
    /\ Cardinality({c \in Contours : Distinct(c)}) = 2
    /\ Len(traceResult.polygons) = 1

\* C22: no polygon traceBinaryBitmap returns has fewer than 3 points, and
\* no two of them have the same signature of coordinates rounded to 3
\* decimals, whatever the trace data.
C22_NoDegenerateNoDuplicate ==
    TraceDone =>
       \A j, k \in 1..Len(traceResult.polygons) :
          /\ Len(traceResult.polygons[k].points) >= 3
          /\ SignatureKey(traceResult.polygons[j].points)
               = SignatureKey(traceResult.polygons[k].points) => j = k

\* A trace has run on data with a path of 2 points and with two contours of
\* different coordinates and the same signature, and has returned the first
\* of the two.
C22_Witness ==
    /\ TraceDone
    /\ \E c \in Contours : Len(ContourPoints(c)) = 2
    /\ \E c, d \in Contours :
          /\ Before(c, d)
          /\ NonDegenerate(c)
          /\ ContourPoints(c) # ContourPoints(d)
          /\ SignatureKey(ContourPoints(c)) = SignatureKey(ContourPoints(d))
          /\ \E k \in 1..Len(traceResult.polygons) :
                traceResult.polygons[k].points = ContourPoints(c)

(***************************************************************************)
(* The mask editing.                                                       *)
(***************************************************************************)
\* C23: a mask that starts with at least 3 points has at least 3 points
\* after any insertions and deletions at any indices; deleteMaskPoint on a
\* mask of 3 points, or with an index out of range, returns the mask
\* unchanged.
C23_MaskKeepsThreePoints ==
    /\ Len(maskPoints) >= 3
    /\ lastMaskEdit.op = "delete" /\
       (Len(lastMaskEdit.before) = 3 \/ lastMaskEdit.index < 0
          \/ lastMaskEdit.index >= Len(lastMaskEdit.before)) =>
          maskPoints = lastMaskEdit.before

\* A deletion was asked of a mask of 3 points at an index in range, after
\* an insertion and a deletion that took place.
C23_Witness ==
    /\ lastMaskEdit.op = "delete"
    /\ Len(lastMaskEdit.before) = 3
    /\ lastMaskEdit.index \in 0..2
    /\ \E k \in 1..3 : maskPoints[k] \in MaskClicks

(***************************************************************************)
(* Properties of the scheduler and the consumer, continued.                *)
(***************************************************************************)
\* The run of the request with this id has been executed and has posted a
\* response that carries the id.
Answered(id) ==
    /\ lastRun.run > 0
    /\ lastRun.req.id = id
    /\ \E i \in 1..Len(lastRun.responses) : lastRun.responses[i].id = id

\* C24: with timers, microtasks and message events run fairly, a request
\* that is pending is followed by the start of a run, and the last request
\* submitted is eventually executed and answered with a response that
\* carries its id.
C24_PendingEventuallyRuns ==
    /\ \A n \in 0..MaxRequests :
         (latestPending # NoRequest /\ Len(runs) = n) ~> (Len(runs) > n)
    /\ \A id \in 1..MaxRequests :
         <>[](requestIdRef = id) => <>Answered(id)

\* The last of the requests has been executed and answered by a second or
\* later run, which took it in place of an earlier request.
C24_Witness ==
    /\ requestIdRef = MaxRequests
    /\ Answered(MaxRequests)
    /\ Len(runs) >= 2
    /\ runs[Len(runs) - 1].req.id < MaxRequests - 1

\* C28: a request submitted during the yield that precedes a run, after the
\* run was started and before its pipeline executes, is coalesced into the
\* run: the pipeline executes the newest request submitted.
C28_YieldCoalesces ==
    [][(lastRun'.run # lastRun.run /\ sentInYield) =>
          lastRun'.req.id = requestIdRef]_vars

\* The latest run succeeded and the consumer shows its result.
ShowsLastRun ==
    /\ latestCompletedRef = lastRun.req.id
    /\ piecePolygons = lastRun.responses[1].piecePolygons
    /\ svgString = lastRun.responses[1].svgString

\* C25: once submissions have stopped and the run of the last request has
\* succeeded, the consumer's piecePolygons and svgString are eventually the
\* result of that request and stay so, in whatever order the responses are
\* delivered.
C25_LastResultStays ==
    \A id \in 1..MaxRequests :
       <>[](requestIdRef = id) =>
          <>[](Answered(id) /\ (~LastRunFailed => ShowsLastRun))

\* The result of the last request is shown, and a response of an earlier
\* request, delivered after it, was discarded.
C25_Witness ==
    /\ requestIdRef = MaxRequests
    /\ Answered(MaxRequests)
    /\ ~LastRunFailed
    /\ ShowsLastRun
    /\ outbox = {}
    /\ lastReceived.msg.id < MaxRequests
    /\ ~Has(lastReceived.msg, "error")
    /\ ~lastReceived.applied
    /\ lastReceived.msg.piecePolygons # piecePolygons

\* The request handled at this place was overwritten while it was pending:
\* the listener handled another request before any run started.
Overwritten(j) ==
    /\ j < Len(handled)
    /\ \A k \in 1..Len(runs) : runs[k].upto # j

\* C26: with requests issued with increasing ids and received in that
\* order, the responses the worker emits have strictly increasing ids: the
\* runs take requests of increasing ids, the response a run posts carries
\* the id of its request, and a request that was overwritten while pending
\* is neither run nor answered.
C26_ResponseIdsIncrease ==
    /\ \A j, k \in 1..Len(runs) :
          j < k => runs[j].req.id < runs[k].req.id
    /\ \A m \in outbox :
          /\ m.n \in 1..Len(runs)
          /\ m.msg.id = runs[m.n].req.id
    /\ \A j \in 1..Len(handled) :
          Overwritten(j) =>
             /\ \A k \in 1..Len(runs) : runs[k].req.id # handled[j].id
             /\ \A m \in outbox : m.msg.id # handled[j].id
             /\ lastRun.req.id # handled[j].id

\* Two runs have answered, and the request handled between theirs was
\* overwritten while it was pending.
C26_Witness ==
    /\ Len(runs) = 2
    /\ lastRun.run = 2
    /\ Cardinality(outbox) = 2
    /\ \E j \in 1..Len(handled) :
          /\ Overwritten(j)
          /\ runs[1].req.id < handled[j].id
          /\ handled[j].id < runs[2].req.id

\* C27: the delivery of a response with an error leaves piecePolygons and
\* svgString as the last successful response that was applied set them.
C27_ErrorKeepsResult ==
    [][\A m \in outbox \ outbox' :
          Has(m.msg, "error") =>
             /\ piecePolygons' = piecePolygons
             /\ svgString' = svgString
             /\ latestCompletedRef' = latestCompletedRef]_vars

\* A response with an error was delivered after a successful response with
\* pieces had been applied, and the pieces are still shown.
C27_Witness ==
    /\ Has(lastReceived.msg, "error")
    /\ lastReceived.msg.id > latestCompletedRef
    /\ latestCompletedRef > 0
    /\ piecePolygons # <<>>

(***************************************************************************)
(* C29, C30: undo and redo of the editor, under SpecEditor.                *)
(***************************************************************************)
\* A step of handleUndo: nothing else lengthens the redo stack.
UndoStep == Len(redoStack') = Len(redoStack) + 1

\* An edit that changed the scene has been made and neither undone nor
\* followed by a redo.
EditPending == editorLog.before # NoScene

\* C29: an undo made with a non-empty undo stack after an edit that changed
\* the scene restores mask, segments, connectors and config to what they
\* were immediately before the most recent such edit.
C29_UndoRevertsLastEdit ==
    [][(UndoStep /\ EditPending) => editorScene' = editorLog.before]_vars

\* A step that calls pushUndoSnapshot: an edit that lengthens the undo stack.
Pushes ==
    /\ Len(undoStack') = Len(undoStack) + 1
    /\ editorLog'.op # "redo"

\* The latest action was a redo made immediately after an undo.
RedoneAtOnce == editorLog.op = "redo" /\ editorLog.prior # NoPrior

=============================================================================
